---- MODULE Spec2Model ----
(***************************************************************************)
(* A model of bot.py: the tenant-isolated storage/query gateway (class DB) *)
(* and the three bot callbacks that use it (upload_csv, query,             *)
(* error_handler).                                                         *)
(*                                                                         *)
(* Text (query text, table names, file names, fault descriptions) is a     *)
(* sequence of units.  A unit is one character (":", "t", "b", "l", hex    *)
(* digits, ".") or a whole keyword that contains none of those characters  *)
(* that matter to the code ("SELECT * FROM ", "_user_data_").  str.replace,*)
(* str.endswith and str.split are computed unit by unit, as Python         *)
(* computes them character by character.                                   *)
(*                                                                         *)
(* The SQLite engine, pandas.read_sql and DataFrame.to_sql are modelled by *)
(* what they do on the statements the model issues: SELECT * FROM t        *)
(* [UNION ALL ...], DELETE FROM t, CREATE TABLE DUMMY, COMMIT, and text    *)
(* that does not parse.                                                    *)
(***************************************************************************)
EXTENDS Integers, Sequences, FiniteSets, TLC

\* ------------------------------------------------------------------ bounds
\* A tenant that has ingested this many rows uploads no more files.
MaxRows == 2

\* ------------------------------------------------------------- text helpers
Range(s) == {s[i] : i \in 1..Len(s)}

\* str.endswith
EndsWith(s, suf) ==
    /\ Len(s) >= Len(suf)
    /\ SubSeq(s, Len(s) - Len(suf) + 1, Len(s)) = suf

\* whether `sub` occurs in `s` (the Python `sub in s`)
Occurs(sub, s) ==
    \E i \in 0..(Len(s) - Len(sub)) : SubSeq(s, i + 1, i + Len(sub)) = sub

\* str.replace(old, new): left to right, non-overlapping, every occurrence
RECURSIVE Replace(_, _, _)
Replace(s, old, new) ==
    IF Len(s) < Len(old) THEN s
    ELSE IF SubSeq(s, 1, Len(old)) = old
         THEN new \o Replace(SubSeq(s, Len(old) + 1, Len(s)), old, new)
         ELSE <<Head(s)>> \o Replace(Tail(s), old, new)

\* fn.split(".", 1)[-1]: the text after the first dot, the whole text without one
RECURSIVE AfterFirstDot(_)
AfterFirstDot(s) ==
    IF \A i \in 1..Len(s) : s[i] # "." THEN s
    ELSE IF Head(s) = "." THEN Tail(s) ELSE AfterFirstDot(Tail(s))

\* fn.split(".")[-1]: the text after the last dot, the whole text without one
RECURSIVE LastField(_)
LastField(s) ==
    IF s = <<>> THEN <<>>
    ELSE IF s[Len(s)] = "." THEN <<>>
    ELSE LastField(SubSeq(s, 1, Len(s) - 1)) \o <<s[Len(s)]>>

\* ------------------------------------------------------------ Tenant Namer
\* the long-lived secret salt of bot_secrets
SALT == <<"s">>

DigitChar(d) ==
    CASE d = 0 -> "0" [] d = 1 -> "1" [] d = 2 -> "2" [] d = 3 -> "3" [] d = 4 -> "4"
      [] d = 5 -> "5" [] d = 6 -> "6" [] d = 7 -> "7" [] d = 8 -> "8" [] d = 9 -> "9"

RECURSIVE Digits(_)
Digits(n) == IF n < 10 THEN <<DigitChar(n)>> ELSE Digits(n \div 10) \o <<DigitChar(n % 10)>>

\* f"{chat_id}": the decimal rendering of an int
Str(n) == IF n < 0 THEN <<"-">> \o Digits(0 - n) ELSE Digits(n)

\* the two hex digits of a character's UTF-8 byte
HexByte(c) ==
    CASE c = "-" -> <<"2", "d">>
      [] c = "_" -> <<"5", "f">>
      [] c = "s" -> <<"7", "3">>
      [] c \in {"0", "1", "2", "3", "4", "5", "6", "7", "8", "9"} -> <<"3", c>>

\* hashlib.sha256(text.encode('utf-8')).hexdigest().  SHA-256 is modelled as a
\* collision-free function into hex digits: the hex encoding of the bytes.
RECURSIVE hexdigest(_)
hexdigest(s) == IF s = <<>> THEN <<>> ELSE HexByte(Head(s)) \o hexdigest(Tail(s))

\* DB.user_table with the digest taken of the salt alone
user_table_salt_only(chat_id) == <<"_user_data_">> \o hexdigest(SALT)

\* DB.user_table
user_table(chat_id) == <<"_user_data_">> \o hexdigest(Str(chat_id) \o <<"_">> \o SALT)

\* ------------------------------------------------------------ Query Scoper
\* the placeholder ":tbl"
TBL == <<":", "t", "b", "l">>

\* An optional chat_id is a set: {} for None, {c} for the value c.
\* `if chat_id:` is Python truthiness: None and 0 are both false.
Truthy(chat) == \E c \in chat : c # 0

\* DB.query, lines 87-89
ScopedText(query_text, chat) ==
    IF Truthy(chat)
    THEN LET c == CHOOSE c \in chat : TRUE IN Replace(query_text, TBL, user_table(c))
    ELSE query_text

\* ------------------------------------------------- exceptions and results
\* An exception: its class, str(e) and the operation that raised it.
NoExc == [cls |-> "", txt |-> <<>>, origin |-> ""]

Exc(cls, txt, origin) == [cls |-> cls, txt |-> txt, origin |-> origin]

\* what DB.query hands back: a DataFrame ("dataset"), a Cursor ("cursor"), None
\* ("none"), the one-row error DataFrame ("error_row"), or nothing because it
\* raised ("raised")
NoRes == [kind |-> "unset", cols |-> <<>>, rows |-> <<>>]

Res(kind, cols, rows) == [kind |-> kind, cols |-> cols, rows |-> rows]

\* the text line 99 compares str(e) with
SENTINEL == <<"'NoneType' object is not iterable">>

\* ------------------------------------------------------------------ inputs
\* chat ids the transport delivers: a group (negative), zero, a user
ChatIds == {-1, 0, 1}

DUMMY == <<"DUMMY">>

CREATE_DUMMY == <<"CREATE TABLE DUMMY (A int)">>

COMMIT == <<"COMMIT">>

\* --------------------------------------------------------- storage engine
\* The tables of a database: a function from table name to [cols, rows].
EmptyDb == [n \in {} |-> [cols |-> <<>>, rows |-> <<>>]]

Put(tables, n, v) == [m \in DOMAIN tables \cup {n} |-> IF m = n THEN v ELSE tables[m]]

\* A connection on the storage file: the committed tables (disk), the tables as
\* the connection sees them (work) and whether a transaction is open (txn).
Closed(disk) == [disk |-> disk, work |-> disk, txn |-> FALSE]

Has(tables, n) == n \in DOMAIN tables

HexDigits == {"0", "1", "2", "3", "4", "5", "6", "7", "8", "9", "a", "b", "c", "d", "e", "f"}

IdentUnits == {"DUMMY", "_user_data_", "_", "t", "l"} \cup HexDigits

\* the words the SQL grammar reserves among the texts of IdentUnits: as a
\* table name each is a syntax error ("left" is a keyword the grammar accepts
\* as a name)
Reserved ==
    {<<"a", "d", "d">>, <<"a", "l", "l">>, <<"t", "a", "b", "l", "e">>,
     <<"d", "e", "l", "e", "t", "e">>}

\* a table identifier of the SQL grammar
IsIdent(s) ==
    /\ s # <<>>
    /\ s \notin Reserved
    /\ \A i \in 1..Len(s) : s[i] \in IdentUnits
    /\ Head(s) \notin {"0", "1", "2", "3", "4", "5", "6", "7", "8", "9"}

RECURSIVE SplitUnit(_, _)
SplitUnit(s, u) ==
    IF \A i \in 1..Len(s) : s[i] # u THEN <<s>>
    ELSE LET i == CHOOSE k \in 1..Len(s) : s[k] = u /\ \A j \in 1..(k - 1) : s[j] # u
         IN <<SubSeq(s, 1, i - 1)>> \o SplitUnit(SubSeq(s, i + 1, Len(s)), u)

IsSelectPart(p) == Len(p) >= 2 /\ Head(p) = "SELECT * FROM " /\ IsIdent(Tail(p))

ParseParts(text, parts) ==
       CASE text = <<>> -> [kind |-> "empty", tables |-> <<>>]
         [] text = COMMIT -> [kind |-> "commit", tables |-> <<>>]
         [] text = CREATE_DUMMY -> [kind |-> "create", tables |-> <<DUMMY>>]
         [] Len(text) >= 2 /\ Head(text) = "DELETE FROM " /\ IsIdent(Tail(text))
              -> [kind |-> "delete", tables |-> <<Tail(text)>>]
         [] \A k \in 1..Len(parts) : IsSelectPart(parts[k])
              -> [kind |-> "select", tables |-> [k \in 1..Len(parts) |-> Tail(parts[k])]]
         [] OTHER -> [kind |-> "syntax", tables |-> <<>>]

\* the statement a text is, as SQLite parses it; the empty text holds no
\* statement, and executing it does nothing and fails with nothing
Parse(text) == ParseParts(text, SplitUnit(text, " UNION ALL "))

RECURSIVE AllRows(_, _)
AllRows(tables, names) ==
    IF names = <<>> THEN <<>> ELSE tables[Head(names)].rows \o AllRows(tables, Tail(names))

Done(st, described, cols, rows) ==
    [st |-> st, err |-> <<>>, described |-> described, cols |-> cols, rows |-> rows]

Failed(st, err) == [st |-> st, err |-> err, described |-> FALSE, cols |-> <<>>, rows |-> <<>>]

\* the parsed statement p run on connection st
ExecuteParsed(st, p, t) ==
       CASE p.kind = "syntax" -> Failed(st, <<"syntax error">>)
         [] p.kind = "empty" -> Done(st, FALSE, <<>>, <<>>)
         [] p.kind = "commit" ->
              IF st.txn
              THEN Done([disk |-> st.work, work |-> st.work, txn |-> FALSE], FALSE, <<>>, <<>>)
              ELSE Failed(st, <<"cannot commit - no transaction is active">>)
         [] p.kind = "create" ->
              IF Has(st.work, DUMMY) THEN Failed(st, <<"table DUMMY already exists">>)
              ELSE LET work == Put(st.work, DUMMY, [cols |-> <<"A">>, rows |-> <<>>])
                   IN Done([disk |-> IF st.txn THEN st.disk ELSE work,
                            work |-> work, txn |-> st.txn], FALSE, <<>>, <<>>)
         [] p.kind = "delete" ->
              IF ~Has(st.work, t[1]) THEN Failed(st, <<"no such table">>)
              ELSE Done([disk |-> st.disk,
                         work |-> [st.work EXCEPT ![t[1]].rows = <<>>],
                         txn |-> TRUE], FALSE, <<>>, <<>>)
         [] p.kind = "select" ->
              IF \E k \in 1..Len(t) : ~Has(st.work, t[k]) THEN Failed(st, <<"no such table">>)
              ELSE IF \E k \in 1..Len(t) : Len(st.work[t[k]].cols) # Len(st.work[t[1]].cols)
                   THEN Failed(st, <<"SELECTs do not have the same number of result columns">>)
                   ELSE Done(st, TRUE, st.work[t[1]].cols, AllRows(st.work, t))

Tables(p) == p.tables

ExecuteStatement(st, p) == ExecuteParsed(st, p, Tables(p))

\* cursor.execute(text) of the sqlite3 module on connection st: the connection
\* after it, the error text (<<>> without one), whether cursor.description is
\* set, and the rows.  The module opens a transaction before DML; DDL outside a
\* transaction is committed at once.
Execute(st, text) == ExecuteStatement(st, Parse(text))

\* connection.rollback()
Rollback(st) == [disk |-> st.disk, work |-> st.disk, txn |-> FALSE]

ReadSqlOf(r) ==
    IF r.err # <<>>
    THEN [st |-> Rollback(r.st), res |-> NoRes,
          exc |-> Exc("DatabaseError", <<"Execution failed on sql: ">> \o r.err, "query")]
    ELSE IF ~r.described
         THEN [st |-> r.st, res |-> NoRes, exc |-> Exc("TypeError", SENTINEL, "query")]
         ELSE [st |-> r.st, res |-> Res("dataset", r.cols, r.rows), exc |-> NoExc]

\* pd.read_sql(text, conn) (line 92): execute; on an error roll back and raise
\* DatabaseError; then build the frame from cursor.description, which is None
\* for a statement that returns no rows: TypeError with the sentinel text.
ReadSql(st, text) == ReadSqlOf(Execute(st, text))

ConnExecuteOf(r) ==
    IF r.err # <<>>
    THEN [st |-> r.st, res |-> NoRes, exc |-> Exc("OperationalError", r.err, "query")]
    ELSE [st |-> r.st, res |-> Res("cursor", r.cols, r.rows), exc |-> NoExc]

\* self._db_conn.execute(text, params) (line 94)
ConnExecute(st, text) == ConnExecuteOf(Execute(st, text))

\* ------------------------------------------------------------------ DB.query
\* lines 90-94 with a read path that is read-only: what the statement did to the
\* connection and to the storage is undone before the result is handed back
RunReadOnly(st, text, safe) ==
    IF ~safe THEN [ReadSql(st, text) EXCEPT !.st = st] ELSE ConnExecute(st, text)

\* lines 90-94: the read path unless safe
Run(st, text, safe) == IF ~safe THEN ReadSql(st, text) ELSE ConnExecute(st, text)

\* lines 95-102 with the test of raise_on_error inverted
OutcomeInverted(r, text, raise_on_error) ==
    IF r.exc = NoExc
    THEN [st |-> r.st, executed |-> text, fault |-> r.exc, res |-> r.res, exc |-> NoExc]
    ELSE IF ~raise_on_error
         THEN [st |-> r.st, executed |-> text, fault |-> r.exc,
               res |-> Res("raised", <<>>, <<>>), exc |-> r.exc]
         ELSE IF r.exc.txt = SENTINEL
              THEN [st |-> r.st, executed |-> text, fault |-> r.exc,
                    res |-> Res("none", <<>>, <<>>), exc |-> NoExc]
              ELSE [st |-> r.st, executed |-> text, fault |-> r.exc,
                    res |-> Res("error_row", <<"Exception_text">>, <<<<r.exc.txt>>>>),
                    exc |-> NoExc]

\* lines 95-102: what becomes of the run r of the text: the connection after it,
\* the text executed, the fault the execution raised (NoExc without one), what
\* is returned (res) and what is raised to the caller (exc)
Outcome(r, text, raise_on_error) ==
    IF r.exc = NoExc
    THEN [st |-> r.st, executed |-> text, fault |-> r.exc, res |-> r.res, exc |-> NoExc]
    ELSE IF raise_on_error
         THEN [st |-> r.st, executed |-> text, fault |-> r.exc,
               res |-> Res("raised", <<>>, <<>>), exc |-> r.exc]
         ELSE IF r.exc.txt = SENTINEL
              THEN [st |-> r.st, executed |-> text, fault |-> r.exc,
                    res |-> Res("none", <<>>, <<>>), exc |-> NoExc]
              ELSE [st |-> r.st, executed |-> text, fault |-> r.exc,
                    res |-> Res("error_row", <<"Exception_text">>, <<<<r.exc.txt>>>>),
                    exc |-> NoExc]

RunScoped(st, text, safe, raise_on_error) == Outcome(Run(st, text, safe), text, raise_on_error)

\* DB.query
DBQuery(st, query_text, chat, safe, raise_on_error) ==
    RunScoped(st, ScopedText(query_text, chat), safe, raise_on_error)

\* ------------------------------------------------------- datasets, to_sql
NULL == <<"NULL">>

\* a cell of a file that tenant c uploads: the value, marked with the tenant
Cell(v, c) == <<v>> \o Str(c)

\* the DataFrames the decoders produce from tenant c's files
Dataset(name, c) ==
    CASE name = "people" ->
           [cols |-> <<"name", "age">>,
            rows |-> <<<<Cell("alice", c), Cell("30", c)>>, <<Cell("bob", c), Cell("25", c)>>>>]
      [] name = "places" ->
           [cols |-> <<"name", "city">>,
            rows |-> <<<<Cell("carol", c), Cell("rome", c)>>>>]

DatasetNames == {"people", "places"}

\* a row of columns `cols` as stored in a table of columns `tcols`
Stored(row, cols, tcols) ==
    [k \in 1..Len(tcols) |->
        IF \E j \in 1..Len(cols) : cols[j] = tcols[k]
        THEN row[CHOOSE j \in 1..Len(cols) : cols[j] = tcols[k]]
        ELSE NULL]

\* df.to_sql(name, conn, if_exists="append", index=False): create the table
\* from the frame's columns when absent, insert the rows, commit; an insert that
\* names a column the table lacks fails and is rolled back.
ToSql(st, name, df) ==
    IF ~Has(st.work, name)
    THEN LET work == Put(st.work, name, [cols |-> df.cols, rows |-> df.rows])
         IN [st |-> [disk |-> work, work |-> work, txn |-> FALSE], exc |-> NoExc]
    ELSE LET t == st.work[name]
         IN IF Range(df.cols) \subseteq Range(t.cols)
            THEN LET rows == t.rows \o [k \in 1..Len(df.rows) |-> Stored(df.rows[k], df.cols, t.cols)]
                     work == [st.work EXCEPT ![name].rows = rows]
                 IN [st |-> [disk |-> work, work |-> work, txn |-> FALSE], exc |-> NoExc]
            ELSE [st |-> Rollback(st),
                  exc |-> Exc("OperationalError", <<"table has no column named">>, "ingest")]

LastRows(rows, n) == SubSeq(rows, Len(rows) - n + 1, Len(rows))

\* upload_df with to_sql's exception caught and passed over
Swallowed(r) == [st |-> r.st, fault |-> r.exc, exc |-> NoExc]

\* lines 75-76: nothing is caught: what to_sql raised (fault) leaves upload_df (exc)
Propagated(r) == [st |-> r.st, fault |-> r.exc, exc |-> r.exc]

\* DB.upload_df
upload_df(st, df, chat_id) == Propagated(ToSql(st, user_table(chat_id), df))

\* ------------------------------------------------- DB open, bootstrap, close
\* DB.create_tables: the statement's outcome is not looked at
create_tables(st) == DBQuery(st, CREATE_DUMMY, {}, FALSE, FALSE)

Booted(b) == [st |-> b.st, booted |-> TRUE, fault |-> b.fault]

\* DB.__post_init__ with the bootstrap run on every open
post_init_always(disk, exists) == Booted(create_tables(Closed(disk)))

\* DB.__post_init__: whether the file existed, connect (which creates it), and
\* the bootstrap when it did not exist
post_init(disk, exists) ==
    IF ~exists
    THEN Booted(create_tables(Closed(disk)))
    ELSE [st |-> Closed(disk), booted |-> FALSE, fault |-> NoExc]

\* the COMMIT of close_connection: self.query("COMMIT", safe=False)
CloseCommit(st) == DBQuery(st, COMMIT, {}, FALSE, TRUE)

\* the commit's exception raised out of close_connection, the connection left open
ReleaseUnguarded(q) ==
    IF q.exc # NoExc
    THEN [st |-> q.st, released |-> FALSE, fault |-> q.fault,
          exc |-> [q.exc EXCEPT !.origin = "commit"]]
    ELSE [st |-> Closed(q.st.disk), released |-> TRUE, fault |-> q.fault, exc |-> NoExc]

\* lines 47-51: whatever the commit raised is passed over, then the connection
\* is closed and what was not committed is gone
Release(q) == [st |-> Closed(q.st.disk), released |-> TRUE, fault |-> q.fault, exc |-> NoExc]

\* DB.close_connection
close_connection(st) == Release(CloseCommit(st))

\* ------------------------------------------------------------- bot inputs
FileNames ==
    { <<"d", ".", "c", "s", "v">>,
      <<"d", ".", "x", "l", "s", "x">>,
      <<"d", ".", "x", "l", "s">>,
      <<"d", ".", "t", "x", "t">>,
      <<"d", ".", "c", "s", "v", ".", "t", "x", "t">>,
      <<"c", "s", "v">> }

\* the decoder upload_csv picks (lines 110-114); "None" when no suffix matches
Meth(fn) ==
    IF EndsWith(fn, <<".", "c", "s", "v">>) THEN "read_csv"
    ELSE IF EndsWith(fn, <<".", "x", "l", "s", "x">>) \/ EndsWith(fn, <<".", "x", "l", "s">>)
         THEN "read_excel"
         ELSE "None"

Q_SEL == <<"SELECT * FROM ">> \o TBL

Q_TWICE == Q_SEL \o <<" UNION ALL ">> \o Q_SEL

Q_DEL == <<"DELETE FROM ">> \o TBL

\* ":tb:tbll": after the substitution the placeholder's letters surround the name
Q_PART == <<"SELECT * FROM ", ":", "t", "b">> \o TBL \o <<"l">>

\* a query that names a table itself instead of using the placeholder
Q_NAMED(c) == <<"SELECT * FROM ">> \o user_table(c)

Q_DUMMY == <<"SELECT * FROM ">> \o DUMMY

QueryTexts ==
    {Q_SEL, Q_TWICE, Q_DEL, Q_PART, Q_DUMMY, CREATE_DUMMY, COMMIT, Q_NAMED(1)}

\* the statements of direct calls
CallTexts == {Q_SEL, Q_DEL, Q_PART, CREATE_DUMMY, COMMIT, <<>>}

\* the text of the command that CommandHandler('version', info) takes
CMD_VERSION == <<"/version">>

\* __version__ of the version module
VERSION == "__version__"

\* An event of the transport, or a direct call of the gateway ("call"):
\*   upload: chat_id, fn, df (the frame the decoder yields), parse_ok
\*   text:   chat_id, text
\*   command: chat_id, text (the version command)
\*   call:   with DB(...) as db: db.query(text, chat_id, safe=, raise_on_error=)
Job(kind, chat, fn, df, parse_ok, text, safe, roe) ==
    [kind |-> kind, chat |-> chat, fn |-> fn, df |-> df, parse_ok |-> parse_ok,
     text |-> text, safe |-> safe, roe |-> roe]

NoJob == Job("none", {}, <<>>, "people", TRUE, <<>>, FALSE, TRUE)

ChatOf(j) == CHOOSE c \in j.chat : TRUE

\* ------------------------------------------------------------------- state
VARIABLES
    pc,          \* where the worker is: "idle", a step of a callback, "done"
    job,         \* the event being handled
    conn,        \* the storage file and the connection on it: [disk, work, txn]
    file_exists, \* os.path.exists(DB_LOCATION)
    live,        \* connections opened and not closed
    tmp_files,   \* temporary files that exist
    exc,         \* the exception propagating out of the callback, or NoExc
    res,         \* what db.query returned to the callback
    replies,     \* what was sent to the chat for this event
    log,         \* history: the faults raised while this event was handled
    executed,    \* history: the text the event's query executed
    did,         \* history: what the callback has done ("tmp", "download", "open", ...)
    bootstraps,  \* history: how often create_tables ran
    ingested,    \* history: per chat id, the rows its uploads stored
    tampered,    \* history: the tables a DELETE was run on
    disk0        \* history: the committed tables when the event arrived

vars == <<pc, job, conn, file_exists, live, tmp_files, exc, res, replies, log,
          executed, did, bootstraps, ingested, tampered, disk0>>

Init ==
    /\ pc = "idle"
    /\ job = NoJob
    /\ conn = Closed(EmptyDb)
    /\ file_exists = FALSE
    /\ live = 0
    /\ tmp_files = 0
    /\ exc = NoExc
    /\ res = NoRes
    /\ replies = <<>>
    /\ log = {}
    /\ executed = <<>>
    /\ did = {}
    /\ bootstraps = 0
    /\ ingested = [c \in ChatIds |-> <<>>]
    /\ tampered = {}
    /\ disk0 = EmptyDb

Fault(origin, e) == IF e = NoExc THEN {} ELSE {[origin |-> origin, txt |-> e.txt]}

Start(j) ==
    /\ pc = "idle"
    /\ pc' = "start"
    /\ job' = j
    /\ disk0' = conn.disk
    /\ UNCHANGED <<conn, file_exists, live, tmp_files, exc, res, replies, log, executed, did,
                   bootstraps, ingested, tampered>>

\* a file-upload event (MessageHandler(Filters.document, upload_csv))
ReceiveUpload ==
    \E c \in ChatIds, fn \in FileNames, df \in DatasetNames, ok \in BOOLEAN :
        /\ (Meth(fn) = "None" \/ ~ok) => df = "people"
        /\ Meth(fn) = "None" => ok
        /\ Len(ingested[c]) < MaxRows
        /\ Start(Job("upload", {c}, fn, df, ok, <<>>, FALSE, TRUE))

\* a text event (MessageHandler(Filters.text, query)): db.query(q_txt, chat_id=chat_id)
ReceiveText ==
    \E c \in ChatIds, q \in QueryTexts :
        Start(Job("text", {c}, <<>>, "people", TRUE, q, FALSE, TRUE))

\* the version command (CommandHandler('version', info), registered ahead of
\* the text handler, so the text handler never sees it)
ReceiveCommand ==
    \E c \in ChatIds :
        Start(Job("command", {c}, <<>>, "people", TRUE, CMD_VERSION, FALSE, TRUE))

\* a direct use of the gateway with any arguments of DB.query
ReceiveCall ==
    \E chat \in {{}, {1}}, q \in CallTexts, safe \in BOOLEAN, roe \in BOOLEAN :
        Start(Job("call", chat, <<>>, "people", TRUE, q, safe, roe))

\* upload_csv, lines 106-116: the decoder is chosen before anything is acquired
UploadCheck ==
    /\ pc = "start" /\ job.kind = "upload"
    /\ IF Meth(job.fn) = "None"
       THEN \E e \in {Exc("TypeError", <<"Unsupported file type: ">> \o LastField(job.fn), "format")} :
               /\ exc' = e
               /\ log' = log \cup Fault("format", e)
               /\ pc' = "error"
       ELSE /\ pc' = "fetch"
            /\ UNCHANGED <<exc, log>>
    /\ UNCHANGED <<job, conn, file_exists, live, tmp_files, res, replies, executed, did,
                   bootstraps, ingested, tampered, disk0>>

\* upload_csv, lines 118-121: the temporary file, the download, the decoder
UploadFetch ==
    /\ pc = "fetch"
    /\ tmp_files' = tmp_files + 1
    /\ did' = did \cup {"tmp", "download"}
    /\ IF job.parse_ok
       THEN /\ pc' = "open"
            /\ UNCHANGED <<exc, log>>
       ELSE \E e \in {Exc("ParserError", <<"Error tokenizing data">>, "parse")} :
               /\ exc' = e
               /\ log' = log \cup Fault("parse", e)
               /\ pc' = "finally"
    /\ UNCHANGED <<job, conn, file_exists, live, res, replies, executed, bootstraps, ingested,
                   tampered, disk0>>

\* DB(DB_LOCATION): __post_init__ and __enter__
Open ==
    /\ pc = "open" \/ (pc = "start" /\ job.kind \in {"text", "call"})
    /\ \E o \in {post_init(conn.disk, file_exists)} :
          /\ conn' = o.st
          /\ bootstraps' = IF o.booted THEN bootstraps + 1 ELSE bootstraps
          /\ log' = log \cup Fault("bootstrap", o.fault)
          /\ did' = did \cup {"open"} \cup (IF file_exists THEN {} ELSE {"fresh"})
                        \cup (IF o.booted THEN {"boot"} ELSE {})
    /\ file_exists' = TRUE
    /\ live' = live + 1
    /\ pc' = IF job.kind = "upload" THEN "ingest" ELSE "query"
    /\ UNCHANGED <<job, tmp_files, exc, res, replies, executed, ingested, tampered, disk0>>

\* db.upload_df(df, chat_id) inside the with block (line 123)
Ingest ==
    /\ pc = "ingest"
    /\ \E c \in job.chat : \E df \in {Dataset(job.df, c)} : \E r \in {upload_df(conn, df, c)} :
          /\ conn' = r.st
          /\ exc' = r.exc
          /\ log' = log \cup Fault("ingest", r.fault)
          /\ ingested' = IF r.fault = NoExc
                         THEN [ingested EXCEPT ![c] = @ \o LastRows(r.st.disk[user_table(c)].rows, Len(df.rows))]
                         ELSE ingested
    /\ did' = did \cup {"ingest"}
    /\ pc' = "close"
    /\ UNCHANGED <<job, file_exists, live, tmp_files, res, replies, executed, bootstraps,
                   tampered, disk0>>

\* res = db.query(...) inside the with block (line 154, or a direct call)
Query ==
    /\ pc = "query"
    /\ \E q \in {DBQuery(conn, job.text, job.chat, job.safe, job.roe)} :
          /\ conn' = q.st
          /\ res' = q.res
          /\ exc' = q.exc
          /\ executed' = q.executed
          /\ log' = log \cup Fault("query", q.fault)
          /\ tampered' = tampered \cup
                 {n \in DOMAIN conn.work \cap DOMAIN q.st.work : q.st.work[n] # conn.work[n]}
    /\ did' = did \cup {"query"}
    /\ pc' = "close"
    /\ UNCHANGED <<job, file_exists, live, tmp_files, replies, bootstraps, ingested, disk0>>

\* DB.__exit__ at the end of the with block, on a normal and on an exceptional exit
Close ==
    /\ pc = "close"
    /\ \E k \in {close_connection(conn)} : \E e \in {IF k.exc # NoExc THEN k.exc ELSE exc} :
          /\ conn' = k.st
          /\ live' = IF k.released THEN live - 1 ELSE live
          /\ log' = log \cup Fault("commit", k.fault)
          /\ exc' = e
          /\ pc' = CASE job.kind = "upload" -> IF e = NoExc THEN "reply" ELSE "finally"
                     [] job.kind = "text" -> IF e = NoExc THEN "render" ELSE "error"
                     [] job.kind = "call" -> "done"
    /\ did' = did \cup {"close"}
    /\ UNCHANGED <<job, file_exists, tmp_files, res, replies, executed, bootstraps, ingested,
                   tampered, disk0>>

Reply(kind, txt, rows) == [kind |-> kind, chat_id |-> ChatOf(job), txt |-> txt, rows |-> rows]

\* upload_csv, line 124
UploadReply ==
    /\ pc = "reply"
    /\ replies' = Append(replies, Reply("ack", <<"Uploaded successfully">>, <<>>))
    /\ pc' = "finally"
    /\ UNCHANGED <<job, conn, file_exists, live, tmp_files, exc, res, log, executed, did,
                   bootstraps, ingested, tampered, disk0>>

\* upload_csv, lines 125-130: the exception is raised again after the temporary
\* file is closed and unlinked
UploadFinally ==
    /\ pc = "finally"
    /\ tmp_files' = tmp_files - 1
    /\ did' = did \cup {"unlink"}
    /\ pc' = IF exc = NoExc THEN "done" ELSE "error"
    /\ UNCHANGED <<job, conn, file_exists, live, exc, res, replies, log, executed, bootstraps,
                   ingested, tampered, disk0>>

\* info: the version message is sent; no connection is opened
Info ==
    /\ pc = "start" /\ job.kind = "command"
    /\ replies' = Append(replies, Reply("version", <<"SQLite interface bot version ", VERSION>>, <<>>))
    /\ pc' = "done"
    /\ UNCHANGED <<job, conn, file_exists, live, tmp_files, exc, res, log, executed, did,
                   bootstraps, ingested, tampered, disk0>>

\* query, lines 156-160: the frame is rendered and sent as a photo
Render ==
    /\ pc = "render"
    /\ replies' = Append(replies, Reply("photo", <<>>, res.rows))
    /\ pc' = "done"
    /\ UNCHANGED <<job, conn, file_exists, live, tmp_files, exc, res, log, executed, did,
                   bootstraps, ingested, tampered, disk0>>

\* error_handler that only prints the message
ErrorHandlerSilent ==
    /\ pc = "error"
    /\ pc' = "done"
    /\ UNCHANGED <<job, conn, file_exists, live, tmp_files, exc, res, replies, log, executed,
                   did, bootstraps, ingested, tampered, disk0>>

\* errmsg of error_handler: the chat id, the exception's class and its text
errmsg(chat_id, e) == <<"Error in chat ">> \o Str(chat_id) \o <<": ", e.cls>> \o e.txt

\* error_handler: the dispatcher calls it with the exception a callback raised;
\* the reply is errmsg followed by the class and the text once more
ErrorHandler ==
    /\ pc = "error"
    /\ replies' = Append(replies,
           Reply("error", errmsg(ChatOf(job), exc) \o <<" ", exc.cls>> \o exc.txt, <<>>))
    /\ pc' = "done"
    /\ UNCHANGED <<job, conn, file_exists, live, tmp_files, exc, res, log, executed, did,
                   bootstraps, ingested, tampered, disk0>>

\* the callback has returned; the worker takes the next event
Finish ==
    /\ pc = "done"
    /\ pc' = "idle"
    /\ job' = NoJob
    /\ exc' = NoExc
    /\ res' = NoRes
    /\ replies' = <<>>
    /\ log' = {}
    /\ executed' = <<>>
    /\ did' = {}
    /\ disk0' = conn.disk
    /\ UNCHANGED <<conn, file_exists, live, tmp_files, bootstraps, ingested, tampered>>

Handle ==
    \/ UploadCheck
    \/ UploadFetch
    \/ Open
    \/ Ingest
    \/ Query
    \/ Close
    \/ UploadReply
    \/ UploadFinally
    \/ Info
    \/ Render
    \/ ErrorHandler
    \/ Finish

Next ==
    \/ ReceiveUpload
    \/ ReceiveText
    \/ ReceiveCommand
    \/ ReceiveCall
    \/ Handle

Spec == Init /\ [][Next]_vars

Positions ==
    {"idle", "start", "fetch", "open", "ingest", "query", "close", "reply", "finally",
     "render", "error", "done"}

\* the worker's next step in a callback it has started: exactly the steps of
\* Handle, each of which moves pc, and one is enabled wherever pc is not "idle"
Advance == pc # "idle" /\ pc' \in Positions /\ pc' # pc

\* Updater(API_KEY, workers=1): the one worker runs a callback it has started to
\* its end; nothing makes it take a next event
FairSpec == Spec /\ WF_pc(Advance)

\* =================================================================== claims
TheChat == ChatOf(job)

Handled == pc = "done" /\ job.kind \in {"upload", "text"}

QueryRan == "query" \in did

Unsupported == job.kind = "upload" /\ Meth(job.fn) = "None"

\* ----------------------------------------------------------------------- C1
\* the text names no tenant table itself: the placeholder is its only scope
PlaceholderOnly(text) == "_user_data_" \notin Range(text)

\* C1 (isolation): a query run with tenant A's chat id whose only table scope is
\* the placeholder never returns a row that only another tenant B ingested.
C1_Isolation ==
    (QueryRan /\ job.chat # {} /\ PlaceholderOnly(job.text) /\ res.kind \in {"dataset", "cursor"})
    => \A b \in ChatIds \ job.chat : \A i \in 1..Len(res.rows) :
           res.rows[i] \in Range(ingested[b]) => res.rows[i] \in Range(ingested[TheChat])

\* tenant A reads its own rows back while another tenant has rows stored
C1_Witness ==
    /\ Handled /\ job.kind = "text" /\ job.text = Q_SEL
    /\ res.kind = "dataset" /\ res.rows # <<>>
    /\ \E b \in ChatIds \ job.chat : ingested[b] # <<>>

\* ----------------------------------------------------------------------- C2
\* C2 (round trip): after tenant T has ingested datasets into a table that did
\* not exist before and nothing else changed that table, SELECT * FROM :tbl sent
\* by T returns exactly the ingested rows in insertion order.
C2_RoundTrip ==
    (Handled /\ job.kind = "text" /\ job.text = Q_SEL
        /\ ingested[TheChat] # <<>> /\ user_table(TheChat) \notin tampered)
    => (res.kind = "dataset" /\ res.rows = ingested[TheChat])

\* ----------------------------------------------------------------------- C3
\* C3 (scoping): for every query text and every chat id given to query, the
\* executed text holds no placeholder, and it is the query text with the
\* tenant's table name in the placeholder's places.
C3_Scoping ==
    (QueryRan /\ job.chat # {})
    => /\ ~Occurs(TBL, executed)
       /\ Replace(executed, user_table(TheChat), TBL) = Replace(job.text, user_table(TheChat), TBL)

\* ----------------------------------------------------------------------- C4
QueryFaults == {f \in log : f.origin = "query"}

\* C4 (query error policy): a fault of the execution is raised when
\* raise_on_error is true, with no dataset; otherwise nothing is raised and the
\* result is the one-row, one-column frame holding the non-empty fault text, or
\* None when the text is the sentinel.
C4_ErrorPolicy ==
    QueryRan => \A f \in QueryFaults :
        IF job.roe
        THEN exc # NoExc /\ exc.txt = f.txt /\ res.kind = "raised" /\ res.rows = <<>>
        ELSE /\ exc = NoExc
             /\ IF f.txt = SENTINEL
                THEN res.kind = "none"
                ELSE /\ res.kind = "error_row"
                     /\ res.cols = <<"Exception_text">>
                     /\ res.rows = <<<<f.txt>>>>
                     /\ f.txt # <<>>

\* a fault turned into an error row, and nothing raised
C4_Witness ==
    /\ QueryRan /\ ~job.roe /\ QueryFaults # {}
    /\ res.kind = "error_row" /\ exc = NoExc

\* ----------------------------------------------------------------------- C5
\* the fault reached the caller: raised to it, or returned to it as an error row
Visible(f) ==
    \/ exc # NoExc /\ exc.txt = f.txt
    \/ res.kind = "error_row" /\ res.rows = <<<<f.txt>>>>

\* C5 as claimed: every fault of parsing, of ingest and of a statement run
\* through query (bootstrap and close-time COMMIT included) reaches the caller,
\* faults with the sentinel text excepted.
C5_NoFaultDropped ==
    pc = "done" => \A f \in log : Visible(f) \/ f.txt = SENTINEL

\* C5 as amended: every fault of the format check, of parsing, of ingest and of
\* the caller's own query reaches the caller, raised or as an error row, except
\* a sentinel-text fault of a query run with raise_on_error false; the faults of
\* the close-time COMMIT and of the bootstrap statement reach no one.
C5_Amended ==
    pc = "done" => \A f \in log :
        \/ f.origin \in {"commit", "bootstrap"}
        \/ Visible(f)
        \/ f.origin = "query" /\ f.txt = SENTINEL /\ ~job.roe /\ res.kind = "none"

\* an ingest failed, the upload callback raised it, and the commit at close
\* failed unseen
C5_Witness ==
    /\ pc = "done" /\ job.kind = "upload"
    /\ \E f \in log : f.origin = "ingest" /\ exc.txt = f.txt
    /\ \E f \in log : f.origin = "commit" /\ f.txt # SENTINEL /\ ~Visible(f)

\* ----------------------------------------------------------------------- C6
\* C6 (idempotent bootstrap): create_tables runs only on an open that found the
\* file absent, at most once over all opens, and no open fails on an existing
\* marker table.
C6_Bootstrap ==
    /\ bootstraps <= 1
    /\ "boot" \in did => "fresh" \in did
    /\ file_exists => bootstraps = 1
    /\ \A f \in log : f.origin = "bootstrap" => ~Occurs(<<"table DUMMY already exists">>, f.txt)
    /\ exc.origin # "bootstrap"

\* an open of the file that exists, after the open that created it
C6_Witness ==
    /\ "open" \in did /\ "fresh" \notin did /\ "boot" \notin did
    /\ bootstraps = 1 /\ Has(conn.disk, DUMMY)

\* ----------------------------------------------------------------------- C7
Responses == {"ack", "photo", "error"}

\* C7 (every action gets a response): a callback that has started on an upload
\* or text event finishes, and when it has finished exactly one reply (an
\* acknowledgment, a rendered dataset or an error message) went to the
\* event's chat; no second reply is ever sent.
C7_Response ==
    /\ [](Len(replies) <= 1)
    /\ [](Handled => /\ Len(replies) = 1
                     /\ replies[1].chat_id = TheChat
                     /\ replies[1].kind \in Responses
                     /\ replies[1].kind = "error" <=> exc # NoExc)
    /\ (pc = "start" /\ job.kind \in {"upload", "text"}) ~> Handled

\* a text callback that raised, answered by the error handler
C7_Witness ==
    /\ Handled /\ job.kind = "text" /\ exc # NoExc
    /\ Len(replies) = 1 /\ replies[1].kind = "error" /\ Occurs(exc.txt, replies[1].txt)

\* ----------------------------------------------------------------------- C8
Dots(fn) == {i \in 1..Len(fn) : fn[i] = "."}

Untouched ==
    /\ did \cap {"tmp", "download", "open", "ingest"} = {}
    /\ tmp_files = 0
    /\ live = 0
    /\ conn = Closed(disk0)

\* C8 as claimed: an upload with an unsupported name fails with a fault naming
\* the text after the name's last dot, before a temporary file, a download or a
\* connection exists, storage untouched.
C8_Unsupported ==
    (Unsupported /\ pc \in {"error", "done"})
    => /\ exc.cls = "TypeError"
       /\ \E i \in Dots(job.fn) : /\ \A j \in Dots(job.fn) : j <= i
                                     /\ exc.txt = <<"Unsupported file type: ">>
                                                    \o SubSeq(job.fn, i + 1, Len(job.fn))
       /\ Untouched

\* C8 as amended: the fault names the text after the last dot, or the whole
\* file name when it holds no dot; the rest as claimed.
C8_Amended ==
    (Unsupported /\ pc \in {"error", "done"})
    => /\ exc.cls = "TypeError"
       /\ exc.txt = <<"Unsupported file type: ">> \o
              (IF Dots(job.fn) = {} THEN job.fn
               ELSE SubSeq(job.fn, (CHOOSE i \in Dots(job.fn) : \A j \in Dots(job.fn) : j <= i) + 1,
                           Len(job.fn)))
       /\ Untouched

\* d.csv.txt was refused, with rows already in storage
C8_Witness ==
    /\ Unsupported /\ pc = "done"
    /\ job.fn = <<"d", ".", "c", "s", "v", ".", "t", "x", "t">>
    /\ exc.txt = <<"Unsupported file type: ", "t", "x", "t">>
    /\ \E c \in ChatIds : ingested[c] # <<>>

\* ----------------------------------------------------------------------- C9
InScope == pc \in {"ingest", "query", "close"}

\* C9 (teardown completes): a connection is live exactly inside the with block;
\* after the block, on a normal and on an exceptional exit and whether or not the
\* commit failed, it is released with no transaction left, nothing was raised by
\* the close, and there is never more than one connection.
C9_Teardown ==
    /\ live <= 1
    /\ live = (IF InScope THEN 1 ELSE 0)
    /\ exc.origin # "commit"
    /\ "close" \in did => conn = Closed(conn.disk)
    /\ "close" \in did <=> ("open" \in did /\ ~InScope)

\* the with block was left by an exception, the commit failed, the connection
\* is released
C9_Witness ==
    /\ "close" \in did /\ exc # NoExc /\ live = 0
    /\ \E f \in log : f.origin = "commit" /\ f.txt # SENTINEL

\* ---------------------------------------------------------------------- C10
Changed == conn' # conn

\* C10 as claimed: the committed data changes only in ingest or in a query run
\* with safe true.
C10_Mutation ==
    [][conn'.disk # conn.disk => (pc = "ingest" \/ (pc = "query" /\ job.safe))]_vars

\* the statement the event's query executed
Statement == Parse(executed)

\* C10 as amended: the committed data changes in four places only, and safe
\* false keeps none of them from happening: the bootstrap of a fresh file adds
\* the empty marker table; ingest changes the uploading tenant's table and no
\* other; a CREATE TABLE run through query is committed at once; the close-time
\* COMMIT commits the pending DELETE that query executed.  A query whose
\* statement is a SELECT, or whose statement fails in execution, leaves the
\* connection and the storage as they were.  A DELETE that query executed with
\* safe false on a stored table is committed when the connection is closed.
C10_Amended ==
    /\ [][/\ conn'.disk # conn.disk =>
               \/ /\ pc \in {"start", "open"} /\ ~file_exists
                  /\ conn'.disk = Put(conn.disk, DUMMY, [cols |-> <<"A">>, rows |-> <<>>])
               \/ /\ pc = "ingest"
                  /\ \A n \in DOMAIN conn.disk \ {user_table(TheChat)} :
                         Has(conn'.disk, n) /\ conn'.disk[n] = conn.disk[n]
               \/ pc = "query" /\ Parse(executed').kind = "create"
               \/ pc = "close" /\ Statement.kind = "delete" /\ conn.txn /\ conn'.disk = conn.work
          /\ file_exists' # file_exists => pc \in {"start", "open"}
          /\ (pc = "query" /\ (Parse(executed').kind = "select"
                                   \/ \E f \in log' : f.origin = "query" /\ f.txt # SENTINEL))
                 => ~Changed]_vars
    /\ []((pc = "done" /\ QueryRan /\ ~job.safe /\ Statement.kind = "delete"
               /\ Has(disk0, Statement.tables[1]))
           => conn.disk[Statement.tables[1]].rows = <<>>)

\* a tenant's DELETE, run with safe false, changed the stored data
C10_Witness ==
    /\ Handled /\ job.kind = "text" /\ job.text = Q_DEL /\ ~job.safe
    /\ Has(disk0, user_table(TheChat)) /\ disk0[user_table(TheChat)].rows # <<>>
    /\ conn.disk[user_table(TheChat)].rows = <<>>

====
